---- MODULE Spec2Model ----
(***************************************************************************)
(* Model of carla_simulation/vehicle_info_publisher.py: the ROS 2 node     *)
(* VehicleInfoPublisher, which stores the latest LiDAR / GNSS / IMU        *)
(* sample in subscription callbacks and republishes six messages from a   *)
(* timer callback.                                                         *)
(*                                                                         *)
(* Python's object model is kept where it matters.  The five message      *)
(* objects the class body builds and the code mutates in place (gps_data,  *)
(* odom_data, velocity_data, position_data, pseudo_odom) live in `cls`     *)
(* and are shared by every instance; the names the code rebinds with       *)
(* `self.x = ...` live per instance in `attrs` and start at the class      *)
(* defaults.  A sample is mutated only by the LiDAR callback that received *)
(* it (line 191), so a stored sample is kept by value; a reference to the  *)
(* header of a sample that is still between lines 190 and 191 is marked    *)
(* `open` with the instance whose callback holds it, and line 191 rewrites *)
(* every such reference, which is what mutating the shared object does.    *)
(***************************************************************************)
EXTENDS Integers, Sequences, FiniteSets, TLC

VARIABLES cls, attrs, node, bus, cycle, cb, lastWrite, sched, key_controller, sim_env, game_loop

vars == <<cls, attrs, node, bus, cycle, cb, lastWrite, sched, key_controller, sim_env, game_loop>>

---------------------------------------------------------------------------
(* Bounds *)

\* calls of cleanup on one instance
MaxCleanups == 2

\* timer periods that elapse on one instance
MaxTicks == 3

\* events pygame.event.get() hands to one call of parse_events
MaxEvents == 2

Inst == {1, 2}
\* header stamps of arriving samples
Stamps == {1, 2}
\* payloads of arriving samples: the angular velocity (z) of an IMU sample,
\* the point buffer of a LiDAR sample, the fix of a GNSS sample
Vals(kind) == IF kind = "imu" THEN {1, 2} ELSE {1}
Streams == {"lidar", "gnss", "imu"}

---------------------------------------------------------------------------
(* Configuration *)

\* check_config's list of required keys, in its order
required_topics == <<"loop_rate", "gnss_sub_topic", "imu_sub_topic", "lidar_sub_topic", "lidar_pub_topic", "gps_pub_topic", "odom_pub_topic", "velocity_pub_topic", "imu_pub_topic", "position_pub_topic">>

RequiredKeys == {required_topics[n] : n \in DOMAIN required_topics}

\* A configuration is the set of keys that config.get() answers with a
\* truthy value; every other key answers None.
FullConfig == RequiredKeys

Configs == {FullConfig} \cup {FullConfig \ {k} : k \in RequiredKeys}

\* flag stays True iff no required key is missing
check_config(config) == \A n \in DOMAIN required_topics : required_topics[n] \in config

---------------------------------------------------------------------------
(* Messages *)

\* publish order of publish_vehicle_data
Topics == <<"lidar", "gps", "odom", "velocity", "imu", "position">>

TopicSet == {Topics[n] : n \in DOMAIN Topics}

\* frame identifier a sample of a stream carries when it arrives
UpstreamFrames(kind) == IF kind = "lidar" THEN {"lidar", "odom"} ELSE {kind}

\* A sample without its expected sub-fields (no header, no angular_velocity)
Malformed(kind) == [kind |-> kind, wf |-> FALSE, stamp |-> 0, frame_id |-> "", val |-> 0]

WellFormed(kind) == {[kind |-> kind, wf |-> TRUE, stamp |-> s, frame_id |-> f, val |-> v] : s \in Stamps, f \in UpstreamFrames(kind), v \in Vals(kind)}

Samples(kind) == WellFormed(kind) \cup {Malformed(kind)}

\* PointCloud2() / NavSatFix() / Imu() of the class body: zero stamp, empty frame_id
DefaultSample(kind) == [kind |-> kind, wf |-> TRUE, stamp |-> 0, frame_id |-> "", val |-> 0]

\* a reference to std_msgs.msg.Header() of the class body
DefaultHeader == [stamp |-> 0, frame_id |-> "", open |-> 0]

\* sample.header: a reference to the header object inside a stored sample
HeaderOf(sample) == [stamp |-> sample.stamp, frame_id |-> sample.frame_id, open |-> 0]

\* the header value a reference leads to, as serialised now
Hdr(ref) == [stamp |-> ref.stamp, frame_id |-> ref.frame_id]

Zero3 == <<0, 0, 0>>

\* sensor_msgs Imu.angular_velocity of a sample
ImuAngular(sample) == <<0, 0, sample.val>>

\* carla.Vehicle answers (get_velocity, get_angular_velocity, get_transform)
Kinematics == {[location |-> <<10, 20, 30>>, rotation |-> [roll |-> 1, pitch |-> 2, yaw |-> 90], velocity |-> <<1, 0, 0>>, angular_velocity |-> <<0, 0, 5>>], [location |-> <<0, 0, 0>>, rotation |-> [roll |-> 0, pitch |-> 0, yaw |-> 0], velocity |-> <<0, 2, 0>>, angular_velocity |-> <<0, 0, 0>>]}

\* pseudo_heading = None
NoRotation == [isNone |-> TRUE, roll |-> 0, pitch |-> 0, yaw |-> 0]

Rotation(r) == [isNone |-> FALSE, roll |-> r.roll, pitch |-> r.pitch, yaw |-> r.yaw]

\* carla_data_to_ros.carla_location_to_ros_vector3: field copy
carla_location_to_ros_vector3(location) == location

\* carla_data_to_ros.carla_velocity_to_ros_twist: field copy into a twist
carla_velocity_to_ros_twist(velocity, angular_velocity) == [linear |-> velocity, angular |-> angular_velocity]

ZeroTwist == [linear |-> Zero3, angular |-> Zero3]

\* nothing published on a topic in the current batch
NoMsg == [topic |-> "none"]

---------------------------------------------------------------------------
(* Initial objects *)

\* the message objects of the class body that the code mutates in place
ClassObjects == [gps_data |-> [header |-> DefaultHeader, gps |-> DefaultSample("gnss"), roll |-> 0, pitch |-> 0, heading |-> 0], odom_data |-> [header |-> DefaultHeader, gps |-> DefaultSample("gnss"), odometry |-> "default"], velocity_data |-> [header |-> DefaultHeader, angular_velocity |-> Zero3, linear_velocity |-> Zero3], position_data |-> [header |-> DefaultHeader, vector |-> Zero3], pseudo_odom |-> [header |-> DefaultHeader, pose |-> Zero3, twist |-> ZeroTwist]]

\* what self.<name> answers before the instance rebinds it: the class attribute
ClassAttrs == [header |-> DefaultHeader, carla_lidar_data |-> DefaultSample("lidar"), carla_gnss_data |-> DefaultSample("gnss"), carla_imu_data |-> DefaultSample("imu"), lidar_data |-> DefaultSample("lidar"), imu_data |-> DefaultSample("imu"), pseudo_heading |-> NoRotation, pseudo_position |-> Zero3, pseudo_velocity |-> ZeroTwist]

---------------------------------------------------------------------------
(* Node resources: __init__ and cleanup *)

\* the create_subscription / create_publisher / create_timer calls of
\* __init__, in the order of the code, each with the key it reads
InitOrder == <<[make |-> "sub", name |-> "gnss", key |-> "gnss_sub_topic"], [make |-> "sub", name |-> "imu", key |-> "imu_sub_topic"], [make |-> "sub", name |-> "lidar", key |-> "lidar_sub_topic"], [make |-> "pub", name |-> "lidar", key |-> "lidar_pub_topic"], [make |-> "pub", name |-> "gps", key |-> "gps_pub_topic"], [make |-> "pub", name |-> "odom", key |-> "odom_pub_topic"], [make |-> "pub", name |-> "velocity", key |-> "velocity_pub_topic"], [make |-> "pub", name |-> "imu", key |-> "imu_pub_topic"], [make |-> "pub", name |-> "position", key |-> "position_pub_topic"], [make |-> "timer", name |-> "timer", key |-> "loop_rate"]>>

\* no VehicleInfoPublisher object yet
NoNode == [status |-> "unbuilt", config |-> {}, subs |-> {}, pubs |-> [t \in TopicSet |-> "absent"], timer |-> "absent", timer_group |-> "none", cancels |-> 0, destroys |-> [t \in TopicSet |-> 0], cleanups |-> 0, raised |-> "none"]

\* an __init__ that hands create_timer a ReentrantCallbackGroup
VehicleInfoPublisher_init_reentrant(config) ==
  LET missing == {n \in DOMAIN InitOrder : InitOrder[n].key \notin config}
      stop == IF missing = {} THEN Len(InitOrder) + 1 ELSE CHOOSE n \in missing : \A m \in missing : n <= m
      made == {InitOrder[n] : n \in 1..(stop - 1)}
  IN [NoNode EXCEPT !.status = IF missing = {} THEN "built" ELSE "failed",
                    !.config = config,
                    !.subs = {m.name : m \in {x \in made : x.make = "sub"}},
                    !.pubs = [t \in TopicSet |-> IF [make |-> "pub", name |-> t, key |-> t \o "_pub_topic"] \in made THEN "live" ELSE "absent"],
                    !.timer = IF \E m \in made : m.make = "timer" THEN "active" ELSE "absent",
                    !.timer_group = IF \E m \in made : m.make = "timer" THEN "reentrant" ELSE "none",
                    !.raised = IF missing = {} THEN "none" ELSE "TypeError"]

\* __init__(vehicle, config).  check_config is not called; each create_*
\* call is handed config.get(key), and rclpy raises TypeError on None (a
\* topic name that is no string, a period that is no number), which ends
\* __init__ with everything made so far left in place.  create_timer is
\* given no callback group, so the timer joins the node's default group,
\* which rclpy makes mutually exclusive.
VehicleInfoPublisher_init(config) ==
  LET missing == {n \in DOMAIN InitOrder : InitOrder[n].key \notin config}
      stop == IF missing = {} THEN Len(InitOrder) + 1 ELSE CHOOSE n \in missing : \A m \in missing : n <= m
      made == {InitOrder[n] : n \in 1..(stop - 1)}
  IN [NoNode EXCEPT !.status = IF missing = {} THEN "built" ELSE "failed",
                    !.config = config,
                    !.subs = {m.name : m \in {x \in made : x.make = "sub"}},
                    !.pubs = [t \in TopicSet |-> IF [make |-> "pub", name |-> t, key |-> t \o "_pub_topic"] \in made THEN "live" ELSE "absent"],
                    !.timer = IF \E m \in made : m.make = "timer" THEN "active" ELSE "absent",
                    !.timer_group = IF \E m \in made : m.make = "timer" THEN "default" ELSE "none",
                    !.raised = IF missing = {} THEN "none" ELSE "TypeError"]

\* cleanup(): the timer is cancelled if the attribute exists; building the
\* list `publishers` reads all six attributes (AttributeError if one was
\* never set); then every publisher is destroyed.  Subscriptions are not
\* touched.
cleanup(nd) ==
  LET n1 == [nd EXCEPT !.cleanups = @ + 1, !.raised = "none",
                       !.timer = IF @ = "absent" THEN @ ELSE "canceled",
                       !.cancels = IF nd.timer = "absent" THEN @ ELSE @ + 1]
  IN IF \E t \in TopicSet : nd.pubs[t] = "absent"
     THEN [n1 EXCEPT !.raised = "AttributeError"]
     ELSE [n1 EXCEPT !.pubs = [t \in TopicSet |-> "destroyed"],
                     !.destroys = [t \in TopicSet |-> @[t] + 1]]

---------------------------------------------------------------------------
(* The handlers, as functions of the objects one instance can reach:       *)
(*   c  the class-level objects      a  the instance's attributes          *)
(*   b  the batch on the bus         y  the publish cycle in progress      *)
(*   x  the LiDAR callback in progress                                     *)
(*   w  per stream the sample last stored, as it was delivered, and (late) *)
(*      the streams whose last sample was stamped older than the sample it *)
(*      replaced                                                           *)

Raise(S, e) == [S EXCEPT !.y.raised = e]

\* the cycle in progress has entered the call named e
Did(S, e) == [S EXCEPT !.y.log = Append(@, e)]

\* an update_vehicle_state_info that leaves pseudo_heading as it is
update_vehicle_state_info_no_heading(S, k) ==
  LET a1 == [S.a EXCEPT !.pseudo_position = carla_location_to_ros_vector3(k.location),
                        !.pseudo_velocity = carla_velocity_to_ros_twist(k.velocity, k.angular_velocity)]
  IN [Did(S, "poll") EXCEPT !.a = a1,
               !.c.pseudo_odom = [header |-> a1.header, pose |-> a1.pseudo_position, twist |-> a1.pseudo_velocity]]

\* update_vehicle_state_info with the vehicle answering k
update_vehicle_state_info(S, k) ==
  LET a1 == [S.a EXCEPT !.pseudo_heading = Rotation(k.rotation),
                        !.pseudo_position = carla_location_to_ros_vector3(k.location),
                        !.pseudo_velocity = carla_velocity_to_ros_twist(k.velocity, k.angular_velocity)]
  IN [Did(S, "poll") EXCEPT !.a = a1,
               !.c.pseudo_odom = [header |-> a1.header, pose |-> a1.pseudo_position, twist |-> a1.pseudo_velocity]]

\* a get_lidar_data that forgets to take the stored sample
get_lidar_data_stale(S) == Did(S, "lidar_data")

get_lidar_data(S) == [Did(S, "lidar_data") EXCEPT !.a.lidar_data = S.a.carla_lidar_data]

\* headingFromYaw of the specification: the literal `- 90` of line 217
YawOffset == 90

\* a get_gps_data that takes the other sign for the offset (the source's own
\* question at line 216)
get_gps_data_plus_offset(S) ==
  IF ~S.a.carla_gnss_data.wf THEN Raise(Did(S, "gps_data"), "AttributeError")
  ELSE IF S.a.pseudo_heading.isNone
       THEN Raise([Did(S, "gps_data") EXCEPT !.c.gps_data.header = HeaderOf(S.a.carla_gnss_data), !.c.gps_data.gps = S.a.carla_gnss_data], "AttributeError")
       ELSE [Did(S, "gps_data") EXCEPT !.c.gps_data = [header |-> HeaderOf(S.a.carla_gnss_data), gps |-> S.a.carla_gnss_data, roll |-> S.a.pseudo_heading.roll, pitch |-> S.a.pseudo_heading.pitch, heading |-> S.a.pseudo_heading.yaw + YawOffset]]

get_gps_data(S) ==
  IF ~S.a.carla_gnss_data.wf THEN Raise(Did(S, "gps_data"), "AttributeError")
  ELSE IF S.a.pseudo_heading.isNone
       THEN Raise([Did(S, "gps_data") EXCEPT !.c.gps_data.header = HeaderOf(S.a.carla_gnss_data), !.c.gps_data.gps = S.a.carla_gnss_data], "AttributeError")
       ELSE [Did(S, "gps_data") EXCEPT !.c.gps_data = [header |-> HeaderOf(S.a.carla_gnss_data), gps |-> S.a.carla_gnss_data, roll |-> S.a.pseudo_heading.roll, pitch |-> S.a.pseudo_heading.pitch, heading |-> S.a.pseudo_heading.yaw - YawOffset]]

\* a get_odom_data that stamps the odometry as get_gps_data stamps the fix
get_odom_data_gnss_header(S) == [Did(S, "odom_data") EXCEPT !.c.odom_data = [header |-> HeaderOf(S.a.carla_gnss_data), gps |-> S.a.carla_gnss_data, odometry |-> "pseudo_odom"]]

get_odom_data(S) == [Did(S, "odom_data") EXCEPT !.c.odom_data = [header |-> S.a.header, gps |-> S.a.carla_gnss_data, odometry |-> "pseudo_odom"]]

\* a get_velocity_data without the second assignment of line 228
get_velocity_data_keeps_imu(S) ==
  LET S1 == [Did(S, "velocity_data") EXCEPT !.c.velocity_data.header = S.a.header]
  IN IF ~S.a.carla_imu_data.wf THEN Raise(S1, "AttributeError")
     ELSE [S1 EXCEPT !.c.velocity_data.angular_velocity = ImuAngular(S.a.carla_imu_data),
                     !.c.velocity_data.linear_velocity = S.a.pseudo_velocity.linear]

\* angular_velocity is assigned twice; the second assignment stays
get_velocity_data(S) ==
  LET S1 == [Did(S, "velocity_data") EXCEPT !.c.velocity_data.header = S.a.header]
  IN IF ~S.a.carla_imu_data.wf THEN Raise(S1, "AttributeError")
     ELSE LET S2 == [S1 EXCEPT !.c.velocity_data.angular_velocity = ImuAngular(S.a.carla_imu_data)]
          IN [S2 EXCEPT !.c.velocity_data.linear_velocity = S.a.pseudo_velocity.linear,
                        !.c.velocity_data.angular_velocity = S.a.pseudo_velocity.angular]

get_imu_data(S) == [Did(S, "imu_data") EXCEPT !.a.imu_data = S.a.carla_imu_data]

get_position_data(S) == [Did(S, "position_data") EXCEPT !.c.position_data = [header |-> S.a.header, vector |-> S.a.pseudo_position]]

\* what publish() puts on the wire for a topic: the message object as it is now
Serialize(S, t) ==
  CASE t = "lidar" -> [topic |-> t, header |-> Hdr(S.a.lidar_data), val |-> S.a.lidar_data.val]
    [] t = "gps" -> [topic |-> t, header |-> Hdr(S.c.gps_data.header), gps |-> S.c.gps_data.gps, roll |-> S.c.gps_data.roll, pitch |-> S.c.gps_data.pitch, heading |-> S.c.gps_data.heading]
    [] t = "odom" -> [topic |-> t, header |-> Hdr(S.c.odom_data.header), gps |-> S.c.odom_data.gps, odometry |-> IF S.c.odom_data.odometry = "pseudo_odom" THEN [header |-> Hdr(S.c.pseudo_odom.header), pose |-> S.c.pseudo_odom.pose, twist |-> S.c.pseudo_odom.twist] ELSE [header |-> Hdr(DefaultHeader), pose |-> Zero3, twist |-> ZeroTwist]]
    [] t = "velocity" -> [topic |-> t, header |-> Hdr(S.c.velocity_data.header), angular_velocity |-> S.c.velocity_data.angular_velocity, linear_velocity |-> S.c.velocity_data.linear_velocity]
    [] t = "imu" -> [topic |-> t, header |-> Hdr(S.a.imu_data), angular_velocity |-> ImuAngular(S.a.imu_data)]
    [] t = "position" -> [topic |-> t, header |-> Hdr(S.c.position_data.header), vector |-> S.c.position_data.vector]

\* <t>_pub.publish(<t>_data): pubs is the state of the instance's
\* publishers; rejected says the bus refuses this message.  Either way the
\* message was handed to the publisher; a refusal or a destroyed handle
\* raises out of publish().
publish(S, pubs, t, rejected) ==
  LET S1 == [Did(S, t \o "_pub") EXCEPT !.y.attempted = @ \cup {t}]
  IN IF pubs[t] # "live" THEN Raise(S1, "InvalidHandle")
     ELSE IF rejected THEN Raise(S1, "PublishFailure")
     ELSE [S1 EXCEPT !.b[t] = Serialize(S, t)]

\* statements of publish_vehicle_data: 7 calls that build, 6 that publish
LastStep == 7 + Len(Topics)

\* a publish_vehicle_data that publishes the point cloud before the position
\* message is built
Statement_publishes_early(n, S, pubs, k, f) ==
  CASE n = 1 -> update_vehicle_state_info(S, k)
    [] n = 2 -> get_lidar_data(S)
    [] n = 3 -> get_gps_data(S)
    [] n = 4 -> get_odom_data(S)
    [] n = 5 -> get_velocity_data(S)
    [] n = 6 -> get_imu_data(S)
    [] n = 7 -> publish(S, pubs, "lidar", f = 1)
    [] n = 8 -> get_position_data(S)
    [] OTHER -> publish(S, pubs, Topics[n - 7], f = n - 7)

\* the n-th statement of publish_vehicle_data (lines 153-166); k is what the
\* vehicle answers, f the number of the publish call the bus refuses (0: none)
Statement(n, S, pubs, k, f) ==
  CASE n = 1 -> update_vehicle_state_info(S, k)
    [] n = 2 -> get_lidar_data(S)
    [] n = 3 -> get_gps_data(S)
    [] n = 4 -> get_odom_data(S)
    [] n = 5 -> get_velocity_data(S)
    [] n = 6 -> get_imu_data(S)
    [] n = 7 -> get_position_data(S)
    [] OTHER -> publish(S, pubs, Topics[n - 7], f = n - 7)

\* statements n.. of publish_vehicle_data, until one raises
RECURSIVE RunFrom(_, _, _, _, _)
RunFrom(n, S, pubs, k, f) ==
  IF n > LastStep \/ S.y.raised # "none" THEN S
  ELSE RunFrom(n + 1, Statement(n, S, pubs, k, f), pubs, k, f)

\* a cycle about to start: nothing of this batch is on the bus yet
NewCycle == [pc |-> 0, raised |-> "none", attempted |-> {}, log |-> <<>>]

EmptyBatch == [t \in TopicSet |-> NoMsg]

\* publish_vehicle_data(), whole
publish_vehicle_data(S, pubs, k, f) == RunFrom(1, [S EXCEPT !.y = NewCycle, !.b = EmptyBatch], pubs, k, f)

---------------------------------------------------------------------------
(* Subscription callbacks *)

\* no LiDAR callback in progress
NoCallback == [pc |-> 0, sample |-> DefaultSample("lidar"), delivered |-> DefaultSample("lidar"), raised |-> "none"]

\* the callback is entered with the sample it was handed
Enter(S, sample) == [S EXCEPT !.x = [pc |-> 190, sample |-> sample, delivered |-> sample, raised |-> "none"]]

\* a reference to the header object that instance i's callback is about to
\* mutate now leads to the mutated header
Closed(ref, i) == IF ref.open = i THEN [stamp |-> ref.stamp, frame_id |-> "odom", open |-> 0] ELSE ref

\* the record of what was stored: sample took the place of old
Stored(w, kind, sample, old) == [w EXCEPT ![kind] = sample, !.late = IF sample.stamp < old.stamp THEN @ \cup {kind} ELSE @ \ {kind}]

\* line 190: self.header = carla_lidar_data.header
line190(S, i) ==
  IF ~S.x.sample.wf THEN [S EXCEPT !.x = [NoCallback EXCEPT !.raised = "AttributeError"]]
  ELSE [S EXCEPT !.a.header = [stamp |-> S.x.sample.stamp, frame_id |-> S.x.sample.frame_id, open |-> i], !.x.pc = 191]

\* line 191: self.header.frame_id = "odom", seen through every alias
line191(S, i) ==
  [S EXCEPT !.a.header = Closed(@, i),
            !.c.pseudo_odom.header = Closed(@, i),
            !.c.odom_data.header = Closed(@, i),
            !.c.velocity_data.header = Closed(@, i),
            !.c.position_data.header = Closed(@, i),
            !.x.sample.frame_id = "odom",
            !.x.pc = 193]

\* line 193: self.carla_lidar_data = carla_lidar_data
line193(S) == [S EXCEPT !.a.carla_lidar_data = S.x.sample, !.w = Stored(S.w, "lidar", S.x.delivered, S.a.carla_lidar_data), !.x = NoCallback]

\* the statement of update_carla_lidar_data the callback stands at
LidarStatement(S, i) ==
  CASE S.x.pc = 190 -> line190(S, i)
    [] S.x.pc = 191 -> line191(S, i)
    [] S.x.pc = 193 -> line193(S)

RECURSIVE RunCallback(_, _)
RunCallback(S, i) == IF S.x.pc = 0 THEN S ELSE RunCallback(LidarStatement(S, i), i)

\* update_carla_lidar_data(carla_lidar_data), whole
update_carla_lidar_data(S, i, sample) == RunCallback(Enter(S, sample), i)

\* a GNSS callback that drops a sample stamped older than the stored one
update_carla_gnss_data_keeps_newest(S, sample) == [S EXCEPT !.a.carla_gnss_data = IF sample.stamp < @.stamp THEN @ ELSE sample, !.w = Stored(S.w, "gnss", sample, S.a.carla_gnss_data)]

update_carla_gnss_data(S, sample) == [S EXCEPT !.a.carla_gnss_data = sample, !.w = Stored(S.w, "gnss", sample, S.a.carla_gnss_data)]

\* an IMU callback that forwards its sample to the bus at once
update_carla_imu_data_publishes(S, sample) == [S EXCEPT !.a.carla_imu_data = sample, !.w = Stored(S.w, "imu", sample, S.a.carla_imu_data), !.b["imu"] = [topic |-> "imu", header |-> Hdr(sample), angular_velocity |-> ImuAngular(sample)]]

update_carla_imu_data(S, sample) == [S EXCEPT !.a.carla_imu_data = sample, !.w = Stored(S.w, "imu", sample, S.a.carla_imu_data)]

---------------------------------------------------------------------------
(* Manual control (main.py): SimEnvironment and KeyboardControl.  Pedal    *)
(* values are kept in hundredths, steering values in tenths.               *)

\* carla.VehicleControl(): every field at its default
VehicleControl == [throttle |-> 0, steer |-> 0, brake |-> 0, hand_brake |-> FALSE, reverse |-> FALSE, gear |-> 0]

\* the flags of carla.VehicleLightState that parse_events sets and clears; a
\* light state is the set of its flags, NONE the empty set
LightFlags == {"Brake", "Reverse"}

\* the actor setup_vehicle spawns: no light on, no control applied yet
SpawnedVehicle == [alive |-> TRUE, light_state |-> {}, control |-> VehicleControl]

\* configs.get("sensors", []): the sensors the configuration file lists
SensorsConfig == <<"lidar", "gnss", "imu">>

SensorSet == {SensorsConfig[n] : n \in DOMAIN SensorsConfig}

\* a SimEnvironment object before restart() has run: self.vehicle = None
\* and no attribute self.sensors (bound: the attribute exists; alive: the
\* sensors of the list that are not destroyed)
NoSimEnvironment == [vehicle |-> [alive |-> FALSE, light_state |-> {}, control |-> VehicleControl], sensors |-> [bound |-> FALSE, alive |-> {}]]

\* SimEnvironment.restart() when every spawn succeeds: a new vehicle takes
\* the place of self.vehicle, a new list of sensors that of self.sensors
restart(env) == [env EXCEPT !.vehicle = SpawnedVehicle, !.sensors = [bound |-> TRUE, alive |-> SensorSet]]

\* SimEnvironment.destroy() on an object whose restart() has completed: the
\* sensors and the vehicle are destroyed, the attributes still name them
destroy(env) == [env EXCEPT !.vehicle.alive = FALSE, !.sensors.alive = {}]

\* SimEnvironment.__init__: self.vehicle = None, then restart()
SimEnvironment_init == restart(NoSimEnvironment)

\* where SimEnvironment.__init__ may raise: nowhere, when the vehicle is
\* spawned (line 113), when the n-th sensor is spawned (line 149)
SpawnFailures == {[at |-> "none", n |-> 0], [at |-> "vehicle", n |-> 0]} \cup {[at |-> "sensor", n |-> n] : n \in DOMAIN SensorsConfig}

\* the actors SimEnvironment.__init__ has spawned in the world when it
\* returns or raises at `failure`
Spawned(failure) ==
  CASE failure.at = "none" -> {"vehicle"} \cup SensorSet
    [] failure.at = "vehicle" -> {}
    [] failure.at = "sensor" -> {"vehicle"} \cup {SensorsConfig[m] : m \in 1..(failure.n - 1)}

\* the actors a SimEnvironment object names that are alive
ActorsOf(env) == (IF env.vehicle.alive THEN {"vehicle"} ELSE {}) \cup env.sensors.alive

\* the frame of game_loop.  pc: the statement it stands at; settings: the
\* settings the world has ("original" or "synchronous"); actors: the actors
\* of this program alive in the world; original_settings, sim_env_bound: the
\* local original_settings ("None" or "original") and whether the local
\* sim_env is bound; raised: the exception on its way out
game_loop_start == [pc |-> "connect", settings |-> "original", actors |-> {}, original_settings |-> "None", sim_env_bound |-> FALSE, raised |-> "none"]

\* game_loop inside its while loop
game_loop_running == [pc |-> "loop", settings |-> "synchronous", actors |-> {"vehicle"} \cup SensorSet, original_settings |-> "original", sim_env_bound |-> TRUE, raised |-> "none"]

\* an exception leaves the try block: control goes to the finally clause
Throw(g, e) == [g EXCEPT !.pc = "finally", !.raised = e]

\* KeyboardControl.__init__ (the vehicle has been told NONE, which it had).
\* returned: the last parse_events returned True; sent: it called
\* set_light_state; before: the light state the vehicle had when it
\* reached the light logic
KeyboardControl_init == [reverse_gear |-> 1, control |-> VehicleControl, lights |-> {}, steer_cache |-> 0, returned |-> FALSE, sent |-> FALSE, before |-> {}]

\* what pygame.event.get() may hold: the window is closed, r or q is
\* released, any other event
Events == {"QUIT", "KEYUP_r", "KEYUP_q", "KEYDOWN"}

EventQueues == UNION {[1..n -> Events] : n \in 0..MaxEvents}

\* keys held down when pygame.key.get_pressed() is asked
KeySets == {{}, {"UP"}, {"DOWN"}, {"s"}, {"UP", "DOWN"}, {"LEFT"}, {"RIGHT"}, {"SPACE"}}

\* clock.get_time(): milliseconds the last frame took
Milliseconds == {200}

Least(m, n) == IF m < n THEN m ELSE n

Greatest(m, n) == IF m > n THEN m ELSE n

\* keys[a] or keys[b]
Held(keys, a, b) == a \in keys \/ b \in keys

parse_vehicle_cmd(kc, keys, milliseconds) ==
  LET steer_increment == milliseconds \div 200
      cache == IF Held(keys, "LEFT", "a") THEN (IF kc.steer_cache > 0 THEN 0 ELSE kc.steer_cache - steer_increment)
               ELSE IF Held(keys, "RIGHT", "d") THEN (IF kc.steer_cache < 0 THEN 0 ELSE kc.steer_cache + steer_increment)
               ELSE 0
      clamped == Least(7, Greatest(-7, cache))
  IN [kc EXCEPT !.control.throttle = IF Held(keys, "UP", "w") THEN Least(@ + 5, 100) ELSE 0,
                !.control.brake = IF Held(keys, "DOWN", "s") THEN Least(@ + 10, 100) ELSE 0,
                !.steer_cache = clamped,
                !.control.steer = clamped,
                !.control.hand_brake = "SPACE" \in keys]

\* the for loop of parse_events over K = [kc, env]: QUIT returns at once;
\* a released q sets the gear from control.reverse, which the loop never
\* changes
RECURSIVE EventLoop(_, _)
EventLoop(events, K) ==
  IF events = <<>> \/ K.kc.returned THEN K
  ELSE LET e == Head(events)
       IN EventLoop(Tail(events),
            CASE e = "QUIT" -> [K EXCEPT !.kc.returned = TRUE]
              [] e = "KEYUP_r" -> [K EXCEPT !.env = restart(destroy(K.env))]
              [] e = "KEYUP_q" -> [K EXCEPT !.kc.control.gear = IF K.kc.control.reverse THEN 1 ELSE -1]
              [] OTHER -> K)

\* parse_events(sim_env, clock) with the event queue, the keys held and the
\* frame time it finds.  self.lights is read (lines 172, 200) and never
\* assigned.
parse_events(K, events, keys, milliseconds) ==
  LET K1 == EventLoop(events, [K EXCEPT !.kc.returned = FALSE, !.kc.sent = FALSE])
  IN IF K1.kc.returned THEN K1
     ELSE LET kc2 == parse_vehicle_cmd(K1.kc, keys, milliseconds)
              kc3 == [kc2 EXCEPT !.control.reverse = kc2.control.gear < 0]
              braking == IF kc3.control.brake # 0 THEN kc3.lights \cup {"Brake"} ELSE kc3.lights \ {"Brake"}
              current_lights == IF kc3.control.reverse THEN braking \cup {"Reverse"} ELSE braking \ {"Reverse"}
              changed == current_lights # kc3.lights
          IN [kc |-> [kc3 EXCEPT !.sent = changed, !.before = K1.env.vehicle.light_state],
              env |-> [K1.env EXCEPT !.vehicle.light_state = IF changed THEN current_lights ELSE @,
                                     !.vehicle.control = kc3.control]]

---------------------------------------------------------------------------
(* State machine *)

\* the objects instance i can reach
Local(i) == [c |-> cls, a |-> attrs[i], b |-> bus[i], y |-> cycle[i], x |-> cb[i], w |-> lastWrite[i]]

Commit(i, S) ==
  /\ cls' = S.c
  /\ attrs' = [attrs EXCEPT ![i] = S.a]
  /\ bus' = [bus EXCEPT ![i] = S.b]
  /\ cycle' = [cycle EXCEPT ![i] = S.y]
  /\ cb' = [cb EXCEPT ![i] = S.x]
  /\ lastWrite' = [lastWrite EXCEPT ![i] = S.w]

\* the node was constructed and handed to the executor
Spinning(i) == node[i].status = "built"

\* the timer of an instance before its first period has elapsed.  ready: a
\* period has elapsed and the callback was not yet taken; running: the
\* executions of publish_vehicle_data in progress; ticks: periods elapsed;
\* overdue: periods that elapsed while the cycle of an earlier one was
\* running; started, batches: calls of publish_vehicle_data begun, and
\* ended with all six messages on the bus; overruns: the overrun records the
\* bridge keeps (the class has no such field and no statement writes one)
NoTicks == [ready |-> FALSE, running |-> 0, ticks |-> 0, overdue |-> 0, started |-> 0, batches |-> 0, overruns |-> 0]

\* the class body has run; `built` are the instances constructed with a full configuration
InitWith(built) ==
  /\ cls = ClassObjects
  /\ attrs = [i \in Inst |-> ClassAttrs]
  /\ node = [i \in Inst |-> IF i \in built THEN VehicleInfoPublisher_init(FullConfig) ELSE NoNode]
  /\ bus = [i \in Inst |-> EmptyBatch]
  /\ cycle = [i \in Inst |-> NewCycle]
  /\ cb = [i \in Inst |-> NoCallback]
  /\ lastWrite = [i \in Inst |-> [lidar |-> DefaultSample("lidar"), gnss |-> DefaultSample("gnss"), imu |-> DefaultSample("imu"), late |-> {}]]
  /\ sched = [i \in Inst |-> NoTicks]
  /\ sim_env = SimEnvironment_init
  /\ key_controller = KeyboardControl_init
  /\ game_loop = game_loop_running

(* Handlers run whole (one executor thread) *)

LidarCallback(i, sample) ==
  /\ Spinning(i) /\ "lidar" \in node[i].subs /\ cb[i].pc = 0
  /\ Commit(i, update_carla_lidar_data(Local(i), i, sample))
  /\ UNCHANGED <<node, sched, key_controller, sim_env, game_loop>>

GnssCallback(i, sample) ==
  /\ Spinning(i) /\ "gnss" \in node[i].subs
  /\ Commit(i, update_carla_gnss_data(Local(i), sample))
  /\ UNCHANGED <<node, sched, key_controller, sim_env, game_loop>>

ImuCallback(i, sample) ==
  /\ Spinning(i) /\ "imu" \in node[i].subs
  /\ Commit(i, update_carla_imu_data(Local(i), sample))
  /\ UNCHANGED <<node, sched, key_controller, sim_env, game_loop>>

\* the timer fires and publish_vehicle_data runs to its end
TimerCallback(i, k, f) ==
  /\ Spinning(i) /\ node[i].timer = "active" /\ cycle[i].pc = 0
  /\ Commit(i, publish_vehicle_data(Local(i), node[i].pubs, k, f))
  /\ UNCHANGED <<node, sched, key_controller, sim_env, game_loop>>

(* Handlers interleave statement by statement (callbacks on other threads) *)

LidarArrives(i, sample) ==
  /\ Spinning(i) /\ "lidar" \in node[i].subs /\ cb[i].pc = 0
  /\ Commit(i, Enter(Local(i), sample))
  /\ UNCHANGED <<node, sched, key_controller, sim_env, game_loop>>

LidarLine(i) ==
  /\ cb[i].pc # 0
  /\ Commit(i, LidarStatement(Local(i), i))
  /\ UNCHANGED <<node, sched, key_controller, sim_env, game_loop>>

TimerFires(i) ==
  /\ Spinning(i) /\ node[i].timer = "active" /\ cycle[i].pc = 0
  /\ Commit(i, [Local(i) EXCEPT !.y = [NewCycle EXCEPT !.pc = 1], !.b = EmptyBatch])
  /\ UNCHANGED <<node, sched, key_controller, sim_env, game_loop>>

\* the next statement of the cycle in progress; rejected: the bus refuses
\* the message if the statement is a publish call
CycleLine(i, k, rejected) ==
  /\ cycle[i].pc # 0
  /\ LET n == cycle[i].pc
         S == Statement(n, Local(i), node[i].pubs, k, IF rejected THEN n - 7 ELSE 0)
     IN Commit(i, [S EXCEPT !.y.pc = IF S.y.raised # "none" \/ n = LastStep THEN 0 ELSE n + 1])
  /\ UNCHANGED <<node, sched, key_controller, sim_env, game_loop>>

(* The timer and the executor.  Which executor spins the node is not part *)
(* of the source, so the executor is any executor of rclpy: it may run     *)
(* callbacks on several threads, and it takes a ready timer only when the   *)
(* timer's callback group lets it (a mutually exclusive group does not      *)
(* while the callback is running).                                          *)

\* the period loop_rate elapses: the timer becomes ready; a timer that is
\* ready already, or whose callback is still running, stays one ready timer
PeriodElapses(i) ==
  /\ Spinning(i) /\ node[i].timer = "active"
  /\ sched[i].ticks < MaxTicks
  /\ sched' = [sched EXCEPT ![i].ticks = @ + 1, ![i].ready = TRUE,
                             ![i].overdue = IF sched[i].running > 0 THEN @ + 1 ELSE @]
  /\ UNCHANGED <<cls, attrs, node, bus, cycle, cb, lastWrite, key_controller, sim_env, game_loop>>

\* the executor takes the ready timer and enters publish_vehicle_data
TimerDispatch(i) ==
  /\ Spinning(i) /\ node[i].timer = "active"
  /\ sched[i].ready
  /\ node[i].timer_group = "reentrant" \/ sched[i].running = 0
  /\ Commit(i, [Local(i) EXCEPT !.y = [NewCycle EXCEPT !.pc = 1], !.b = EmptyBatch])
  /\ sched' = [sched EXCEPT ![i].ready = FALSE, ![i].running = @ + 1, ![i].started = @ + 1]
  /\ UNCHANGED <<node, key_controller, sim_env, game_loop>>

\* the next statement of the cycle in progress, on a bus that accepts; the
\* call returns after its last statement or when a statement raises
CycleStep(i, k) ==
  /\ cycle[i].pc # 0
  /\ LET n == cycle[i].pc
         S == Statement(n, Local(i), node[i].pubs, k, 0)
         returns == S.y.raised # "none" \/ n = LastStep
     IN /\ Commit(i, [S EXCEPT !.y.pc = IF returns THEN 0 ELSE n + 1])
        /\ sched' = [sched EXCEPT ![i].running = IF returns THEN @ - 1 ELSE @,
                                   ![i].batches = IF n = LastStep /\ \A t \in TopicSet : S.b[t] # NoMsg THEN @ + 1 ELSE @]
  /\ UNCHANGED <<node, key_controller, sim_env, game_loop>>

(* One frame of the game loop's keyboard handling *)

ParseEvents(events, keys, milliseconds) ==
  /\ ~key_controller.returned
  /\ LET K == parse_events([kc |-> key_controller, env |-> sim_env], events, keys, milliseconds)
     IN key_controller' = K.kc /\ sim_env' = K.env
  /\ UNCHANGED <<cls, attrs, node, bus, cycle, cb, lastWrite, sched, game_loop>>

(* game_loop, statement group by statement group *)

\* lines 256-265: connect, remember the settings, switch to synchronous
\* mode; the client may fail to reach the server
Connect(ok) ==
  /\ game_loop.pc = "connect"
  /\ game_loop' = IF ok THEN [game_loop EXCEPT !.pc = "config", !.original_settings = "original", !.settings = "synchronous"]
                  ELSE Throw(game_loop, "RuntimeError")
  /\ UNCHANGED <<cls, attrs, node, bus, cycle, cb, lastWrite, sched, key_controller, sim_env>>

\* lines 267-269: open and parse the configuration file
LoadConfig(ok) ==
  /\ game_loop.pc = "config"
  /\ game_loop' = IF ok THEN [game_loop EXCEPT !.pc = "sim_env"] ELSE Throw(game_loop, "OSError")
  /\ UNCHANGED <<cls, attrs, node, bus, cycle, cb, lastWrite, sched, key_controller, sim_env>>

\* line 271: sim_env = SimEnvironment(carla_world, config); the local is
\* bound only if the constructor returns
NewSimEnvironment(failure) ==
  /\ game_loop.pc = "sim_env"
  /\ IF failure.at = "none"
     THEN /\ sim_env' = SimEnvironment_init
          /\ game_loop' = [game_loop EXCEPT !.pc = "controller", !.sim_env_bound = TRUE, !.actors = Spawned(failure)]
     ELSE /\ sim_env' = sim_env
          /\ game_loop' = [Throw(game_loop, "RuntimeError") EXCEPT !.actors = Spawned(failure)]
  /\ UNCHANGED <<cls, attrs, node, bus, cycle, cb, lastWrite, sched, key_controller>>

\* lines 272-278: KeyboardControl(sim_env), HUD() (which raises if no
\* monospace font is installed), the first tick, the clock
NewController(ok) ==
  /\ game_loop.pc = "controller"
  /\ key_controller' = KeyboardControl_init
  /\ game_loop' = IF ok THEN [game_loop EXCEPT !.pc = "loop"] ELSE Throw(game_loop, "IndexError")
  /\ UNCHANGED <<cls, attrs, node, bus, cycle, cb, lastWrite, sched, sim_env>>

\* lines 280-296: one pass of the while loop.  interrupt: what is raised
\* before parse_events is reached (a tick that times out, Ctrl-C), if
\* anything; a parse_events that returns True makes game_loop return.  A
\* restart inside parse_events destroys and respawns the same actors.
Frame(events, keys, milliseconds, interrupt) ==
  /\ game_loop.pc = "loop"
  /\ IF interrupt # "none"
     THEN /\ game_loop' = Throw(game_loop, interrupt)
          /\ UNCHANGED <<key_controller, sim_env>>
     ELSE LET K == parse_events([kc |-> key_controller, env |-> sim_env], events, keys, milliseconds)
          IN /\ key_controller' = K.kc
             /\ sim_env' = K.env
             /\ game_loop' = [game_loop EXCEPT !.pc = IF K.kc.returned THEN "finally" ELSE "loop"]
  /\ UNCHANGED <<cls, attrs, node, bus, cycle, cb, lastWrite, sched>>

\* lines 298-305: KeyboardInterrupt is caught; the finally clause calls
\* sim_env.destroy(), which raises UnboundLocalError in place of whatever
\* was on its way out if the local was never bound, and only after it
\* re-applies the original settings
Finally ==
  /\ game_loop.pc = "finally"
  /\ LET pending == IF game_loop.raised = "KeyboardInterrupt" THEN "none" ELSE game_loop.raised
     IN IF ~game_loop.sim_env_bound
        THEN /\ game_loop' = [game_loop EXCEPT !.pc = "done", !.raised = "UnboundLocalError"]
             /\ sim_env' = sim_env
        ELSE /\ sim_env' = destroy(sim_env)
             /\ game_loop' = [game_loop EXCEPT !.pc = "done", !.raised = pending,
                                                !.actors = @ \ ActorsOf(sim_env),
                                                !.settings = IF game_loop.original_settings # "None" THEN game_loop.original_settings ELSE @,
                                                !.original_settings = "None"]
  /\ UNCHANGED <<cls, attrs, node, bus, cycle, cb, lastWrite, sched, key_controller>>

(* Construction and teardown *)

Construct(i, config) ==
  /\ node[i].status = "unbuilt"
  /\ node' = [node EXCEPT ![i] = VehicleInfoPublisher_init(config)]
  /\ UNCHANGED <<cls, attrs, bus, cycle, cb, lastWrite, sched, key_controller, sim_env, game_loop>>

Cleanup(i) ==
  /\ node[i].status # "unbuilt"
  /\ node[i].cleanups < MaxCleanups
  /\ node' = [node EXCEPT ![i] = cleanup(node[i])]
  /\ UNCHANGED <<cls, attrs, bus, cycle, cb, lastWrite, sched, key_controller, sim_env, game_loop>>

---------------------------------------------------------------------------
(* Specifications *)

\* publish calls the bus may refuse: none, or the f-th
Refusals == 0..Len(Topics)

\* one sample per stream
FirstSamples(kind) == {s \in WellFormed(kind) : s.stamp = 1 /\ s.val = 1 /\ s.frame_id = kind}

\* LiDAR samples that differ in their stamp only
StampedClouds == {s \in WellFormed("lidar") : s.frame_id = "lidar"}

\* the vehicle standing at the origin
Parked == {k \in Kinematics : k.location = Zero3}

\* Spec: one bridge, one executor thread (every handler runs whole), samples
\* as the middleware deserialises them (every field present), a bus that
\* accepts every message
Init == InitWith({1})

Next ==
  \/ \E i \in Inst, sample \in WellFormed("lidar") : LidarCallback(i, sample)
  \/ \E i \in Inst, sample \in WellFormed("gnss") : GnssCallback(i, sample)
  \/ \E i \in Inst, sample \in WellFormed("imu") : ImuCallback(i, sample)
  \/ \E i \in Inst, k \in Kinematics : TimerCallback(i, k, 0)

Spec == Init /\ [][Next]_vars

\* SpecMalformed: a callback may be handed an object that lacks its
\* sub-fields; the bus accepts every message
NextMalformed ==
  \/ \E i \in Inst, sample \in StampedClouds \cup {Malformed("lidar")} : LidarCallback(i, sample)
  \/ \E i \in Inst, sample \in FirstSamples("gnss") \cup {Malformed("gnss")} : GnssCallback(i, sample)
  \/ \E i \in Inst, sample \in FirstSamples("imu") \cup {Malformed("imu")} : ImuCallback(i, sample)
  \/ \E i \in Inst, k \in Kinematics : TimerCallback(i, k, 0)

SpecMalformed == Init /\ [][NextMalformed]_vars

\* SpecNode: the life of one node, from a configuration that may lack a
\* key to cleanup, on a bus that may refuse a message
InitNode == InitWith({})

NextNode ==
  \/ \E config \in Configs : Construct(1, config)
  \/ Cleanup(1)
  \/ \E sample \in FirstSamples("lidar") : LidarCallback(1, sample)
  \/ \E sample \in FirstSamples("gnss") : GnssCallback(1, sample)
  \/ \E sample \in FirstSamples("imu") : ImuCallback(1, sample)
  \/ \E k \in Kinematics, f \in Refusals : TimerCallback(1, k, f)

SpecNode == InitNode /\ [][NextNode]_vars

\* SpecTwo: two bridges in one process, spun by one executor thread
InitTwo == InitWith(Inst)

NextTwo ==
  \/ \E i \in Inst, sample \in StampedClouds : LidarCallback(i, sample)
  \/ \E i \in Inst, sample \in FirstSamples("gnss") : GnssCallback(i, sample)
  \/ \E i \in Inst, sample \in FirstSamples("imu") : ImuCallback(i, sample)
  \/ \E i \in Inst, k \in Kinematics : TimerCallback(i, k, 0)

SpecTwo == InitTwo /\ [][NextTwo]_vars

\* SpecConc: one bridge whose callbacks run on threads of their own, so the
\* statements of a callback and of the publish cycle interleave
NextConc ==
  \/ \E sample \in StampedClouds : LidarArrives(1, sample)
  \/ LidarLine(1)
  \/ \E sample \in FirstSamples("gnss") : GnssCallback(1, sample)
  \/ \E sample \in FirstSamples("imu") : ImuCallback(1, sample)
  \/ TimerFires(1)
  \/ \E k \in Parked : CycleLine(1, k, FALSE)

SpecConc == Init /\ [][NextConc]_vars

\* SpecSched: one bridge under its timer: periods elapse whatever the cycle
\* is doing, the executor takes the ready timer, the cycle runs statement
\* by statement, and a subscription callback may run between two of them
NextSched ==
  \/ PeriodElapses(1)
  \/ TimerDispatch(1)
  \/ \E k \in Parked : CycleStep(1, k)
  \/ \E sample \in FirstSamples("lidar") : LidarCallback(1, sample)
  \/ \E sample \in FirstSamples("gnss") : GnssCallback(1, sample)
  \/ \E sample \in FirstSamples("imu") : ImuCallback(1, sample)

SpecSched == Init /\ [][NextSched]_vars

\* SpecKeys: the keyboard controller over the frames of one game, until
\* parse_events returns True
NextKeys == \E events \in EventQueues, keys \in KeySets, milliseconds \in Milliseconds : ParseEvents(events, keys, milliseconds)

SpecKeys == Init /\ [][NextKeys]_vars

\* what a pass of the while loop may raise before it reaches parse_events
Interrupts == {"none", "KeyboardInterrupt", "RuntimeError"}

\* SpecGame: one call of game_loop, from its first statement to its return
\* or to the exception that leaves it
InitGame ==
  /\ cls = ClassObjects
  /\ attrs = [i \in Inst |-> ClassAttrs]
  /\ node = [i \in Inst |-> NoNode]
  /\ bus = [i \in Inst |-> EmptyBatch]
  /\ cycle = [i \in Inst |-> NewCycle]
  /\ cb = [i \in Inst |-> NoCallback]
  /\ lastWrite = [i \in Inst |-> [lidar |-> DefaultSample("lidar"), gnss |-> DefaultSample("gnss"), imu |-> DefaultSample("imu"), late |-> {}]]
  /\ sched = [i \in Inst |-> NoTicks]
  /\ sim_env = NoSimEnvironment
  /\ key_controller = KeyboardControl_init
  /\ game_loop = game_loop_start

NextGame ==
  \/ \E ok \in BOOLEAN : Connect(ok)
  \/ \E ok \in BOOLEAN : LoadConfig(ok)
  \/ \E failure \in SpawnFailures : NewSimEnvironment(failure)
  \/ \E ok \in BOOLEAN : NewController(ok)
  \/ \E events \in EventQueues, keys \in KeySets, milliseconds \in Milliseconds, interrupt \in Interrupts : Frame(events, keys, milliseconds, interrupt)
  \/ Finally

SpecGame == InitGame /\ [][NextGame]_vars

---------------------------------------------------------------------------
(* Claims *)

\* instance i has just run a whole publish cycle on an accepting bus
CycleRan(i) == \E k \in Kinematics : TimerCallback(i, k, 0)

\* every message of the batch on the bus was published
FullBatch(i) == \A t \in TopicSet : bus[i][t] # NoMsg

\* the header line 190-191 leaves in self.header for the last LiDAR sample
\* stored: its stamp under the frame "odom"; the class default before any
LidarFrame(i) == IF lastWrite[i].lidar = DefaultSample("lidar") THEN Hdr(DefaultHeader) ELSE [stamp |-> lastWrite[i].lidar.stamp, frame_id |-> "odom"]

C3_LastWriteWins ==
  [][\A i \in Inst : CycleRan(i) =>
       /\ bus'[i]["lidar"].header.stamp = lastWrite'[i].lidar.stamp
       /\ bus'[i]["lidar"].val = lastWrite'[i].lidar.val
       /\ bus'[i]["gps"].gps = lastWrite'[i].gnss
       /\ bus'[i]["odom"].gps = lastWrite'[i].gnss
       /\ bus'[i]["imu"].header = Hdr(lastWrite'[i].imu)
       /\ bus'[i]["imu"].angular_velocity = ImuAngular(lastWrite'[i].imu)]_vars

\* a batch published from samples that each replaced a newer one
C3_Witness ==
  /\ FullBatch(1)
  /\ lastWrite[1].late = Streams
  /\ bus[1]["lidar"].header.stamp = 1
  /\ bus[1]["gps"].gps.stamp = 1
  /\ bus[1]["imu"].header.stamp = 1

\* C4 (as stated): the published point cloud is identical in every field,
\* header included, to the sample as it was delivered.
C4_PassThroughIdentical ==
  [][\A i \in Inst : (CycleRan(i) /\ lastWrite'[i].lidar # DefaultSample("lidar")) =>
       bus'[i]["lidar"] = [topic |-> "lidar", header |-> Hdr(lastWrite'[i].lidar), val |-> lastWrite'[i].lidar.val]]_vars

\* C4 (amended): the published point cloud has the stamp and the point
\* buffer of the sample as it was delivered, and the frame identifier "odom"
\* whatever frame identifier the sample was delivered with.
C4_PassThroughButFrame ==
  [][\A i \in Inst : (CycleRan(i) /\ lastWrite'[i].lidar # DefaultSample("lidar")) =>
       bus'[i]["lidar"] = [topic |-> "lidar", header |-> [stamp |-> lastWrite'[i].lidar.stamp, frame_id |-> "odom"], val |-> lastWrite'[i].lidar.val]]_vars

\* a published point cloud whose sample arrived under another frame
C4_Witness ==
  /\ lastWrite[1].lidar.frame_id = "lidar"
  /\ lastWrite[1].lidar.stamp = 2
  /\ bus[1]["lidar"] = [topic |-> "lidar", header |-> [stamp |-> 2, frame_id |-> "odom"], val |-> 1]

C5_FailsBeforeAnyResource ==
  \A i \in Inst : (node[i].status # "unbuilt" /\ ~check_config(node[i].config)) =>
      /\ node[i].status = "failed"
      /\ node[i].subs = {}
      /\ \A t \in TopicSet : node[i].pubs[t] = "absent"
      /\ node[i].timer = "absent"

\* C6: no callback and no publish cycle of one instance changes an object
\* another instance reads its fields from.
C6_PerInstanceState ==
  [][\A i \in Inst : \A j \in Inst \ {i} :
       (\/ CycleRan(i)
        \/ \E sample \in StampedClouds : LidarCallback(i, sample)
        \/ \E sample \in FirstSamples("gnss") : GnssCallback(i, sample)
        \/ \E sample \in FirstSamples("imu") : ImuCallback(i, sample))
       => (Local(j).c = Local(j).c' /\ Local(j).a = Local(j).a' /\ Local(j).b = Local(j).b')]_vars

\* C7: a callback handed a malformed sample does not raise and leaves what
\* the instance has stored, the shared header included, as it was.
C7_MalformedDiscarded ==
  [][\A i \in Inst :
       /\ LidarCallback(i, Malformed("lidar")) => (cb'[i].raised = "none" /\ attrs'[i] = attrs[i])
       /\ GnssCallback(i, Malformed("gnss")) => attrs'[i] = attrs[i]
       /\ ImuCallback(i, Malformed("imu")) => attrs'[i] = attrs[i]]_vars

\* C8: a cycle in which the bus refused a message has still handed every
\* message of the batch to its publisher.
C8_BatchSurvivesRefusal ==
  \A i \in Inst : (cycle[i].pc = 0 /\ cycle[i].raised = "PublishFailure") => cycle[i].attempted = TopicSet

\* C9: however often cleanup has run, and however far __init__ got, the
\* last cleanup raised nothing, and the timer was cancelled and each
\* publisher released at most once.
C9_CleanupIdempotent ==
  \A i \in Inst : node[i].cleanups > 0 =>
      /\ node[i].raised = "none"
      /\ node[i].cancels <= 1
      /\ \A t \in TopicSet : node[i].destroys[t] <= 1

\* C10: a publisher is released only once the timer is cancelled and the
\* three subscriptions are gone, and nothing is published on a released
\* publisher.
C10_TeardownOrder ==
  \A i \in Inst :
      /\ (\E t \in TopicSet : node[i].pubs[t] = "destroyed") => (node[i].timer # "active" /\ node[i].subs = {})
      /\ cycle[i].raised # "InvalidHandle"

\* C13: after every publish cycle the velocity message carries the angular
\* and the linear velocity the vehicle answered in that cycle, whatever
\* angular velocity the stored IMU sample has, and the position message
\* carries the location the vehicle answered in that cycle.
C13_KinematicsValues ==
  [][\A i \in Inst, k \in Kinematics : TimerCallback(i, k, 0) =>
       /\ bus'[i]["velocity"].angular_velocity = k.angular_velocity
       /\ bus'[i]["velocity"].linear_velocity = k.velocity
       /\ bus'[i]["position"].vector = k.location]_vars

\* a batch whose velocity message has the vehicle's angular velocity while
\* the IMU message of the same batch has another
C13_Witness ==
  /\ FullBatch(1)
  /\ bus[1]["velocity"].angular_velocity = <<0, 0, 5>>
  /\ bus[1]["velocity"].linear_velocity = <<1, 0, 0>>
  /\ bus[1]["imu"].angular_velocity = <<0, 0, 1>>
  /\ bus[1]["position"].vector = <<10, 20, 30>>

\* C14: after every publish cycle the GPS message has heading = polled yaw
\* minus 90, roll and pitch as polled, and the last stored GNSS sample as
\* its fix.
C14_HeadingFromYaw ==
  [][\A i \in Inst, k \in Kinematics : TimerCallback(i, k, 0) =>
       /\ bus'[i]["gps"].heading = k.rotation.yaw - 90
       /\ bus'[i]["gps"].roll = k.rotation.roll
       /\ bus'[i]["gps"].pitch = k.rotation.pitch
       /\ bus'[i]["gps"].gps = lastWrite'[i].gnss]_vars

\* yaw 90 published as heading 0 with a GNSS sample that has arrived
C14_Witness ==
  /\ bus[1]["gps"] # NoMsg
  /\ bus[1]["gps"].heading = 0
  /\ bus[1]["gps"].roll = 1
  /\ bus[1]["gps"].pitch = 2
  /\ bus[1]["gps"].gps.stamp = 2
  /\ attrs[1].pseudo_heading.yaw = 90

\* C15: after every publish cycle, a cycle before the first LiDAR sample
\* included, every one of the six messages carries the one output frame
\* identifier ("odom"), whatever frame the stored samples arrived under.
C15_FrameFixedAtConstruction ==
  [][\A i \in Inst : CycleRan(i) => \A t \in TopicSet : bus'[i][t].header.frame_id = "odom"]_vars

\* the field of instance i that holds the stored sample of a stream
StoredField(i, kind) == IF kind = "lidar" THEN attrs[i].carla_lidar_data ELSE IF kind = "gnss" THEN attrs[i].carla_gnss_data ELSE attrs[i].carla_imu_data

\* C16: a publish cycle raises nothing (no field is read while None) and
\* publishes all six messages, with the empty message of the class body for
\* every stream that has delivered no sample yet; and a stored field that
\* holds a sample never goes back to the empty value.
C16_DefinedBeforeFirstSample ==
  [][\A i \in Inst :
       /\ CycleRan(i) =>
            /\ cycle'[i].raised = "none"
            /\ FullBatch(i)'
            /\ lastWrite'[i].lidar = DefaultSample("lidar") => bus'[i]["lidar"] = [topic |-> "lidar", header |-> Hdr(DefaultHeader), val |-> 0]
            /\ lastWrite'[i].gnss = DefaultSample("gnss") => (bus'[i]["gps"].gps = DefaultSample("gnss") /\ bus'[i]["odom"].gps = DefaultSample("gnss"))
            /\ lastWrite'[i].imu = DefaultSample("imu") => bus'[i]["imu"] = [topic |-> "imu", header |-> Hdr(DefaultHeader), angular_velocity |-> Zero3]
       /\ \A kind \in Streams : StoredField(i, kind) # DefaultSample(kind) => StoredField(i, kind)' # DefaultSample(kind)]_vars

\* a full batch published while only the IMU stream has delivered a sample
C16_Witness ==
  /\ FullBatch(1)
  /\ cycle[1].raised = "none"
  /\ lastWrite[1].lidar = DefaultSample("lidar")
  /\ lastWrite[1].gnss = DefaultSample("gnss")
  /\ lastWrite[1].imu.stamp = 2
  /\ bus[1]["gps"].gps = DefaultSample("gnss")
  /\ bus[1]["lidar"].header = Hdr(DefaultHeader)
  /\ bus[1]["imu"].header.stamp = 2

\* C11: at no time are two executions of the publish cycle in progress, at
\* whatever moments the timer's period elapses; a period that elapses during
\* a cycle starts no cycle of its own before that cycle has returned.
C11_CyclesNeverOverlap ==
  \A i \in Inst :
      /\ sched[i].running <= 1
      /\ sched[i].running = 1 <=> cycle[i].pc # 0
      /\ sched[i].started + (IF sched[i].ready THEN 1 ELSE 0) <= sched[i].ticks

\* a period elapsed during the first cycle and its tick runs as the second
\* cycle, after the first has published its batch
C11_Witness ==
  /\ sched[1].overdue = 1
  /\ sched[1].batches = 1
  /\ sched[1].started = 2
  /\ sched[1].running = 1
  /\ cycle[1].pc > 7

\* C12: the bridge's overrun records count the periods that elapsed while
\* the cycle of an earlier period had not completed.
C12_OverrunsObservable == \A i \in Inst : sched[i].overruns = sched[i].overdue

\* a subscription callback of instance i runs
InputCallback(i) ==
  \/ \E sample \in FirstSamples("lidar") : LidarCallback(i, sample)
  \/ \E sample \in FirstSamples("gnss") : GnssCallback(i, sample)
  \/ \E sample \in FirstSamples("imu") : ImuCallback(i, sample)

\* C17: a subscription callback puts nothing on the bus and starts no
\* cycle; whatever changes the bus is a step of a cycle the timer started;
\* and whenever no cycle is running, the batches published are as many as
\* the timer callbacks begun, however many samples arrived.
C17_TimerSoleDriver ==
  [][\A i \in Inst :
       /\ InputCallback(i) => (bus'[i] = bus[i] /\ cycle'[i] = cycle[i])
       /\ bus'[i] # bus[i] => (TimerDispatch(i) \/ \E k \in Parked : CycleStep(i, k))
       /\ sched'[i].running = 0 => sched'[i].batches = sched'[i].started]_vars

\* three timer callbacks and three batches, with a sample of every stream
\* having arrived
C17_Witness ==
  /\ sched[1].started = 3
  /\ sched[1].batches = 3
  /\ sched[1].running = 0
  /\ FullBatch(1)
  /\ \A kind \in Streams : lastWrite[1][kind] # DefaultSample(kind)

\* the calls of one tick, in the order of the claim
CallOrder == <<"poll", "lidar_data", "gps_data", "odom_data", "velocity_data", "imu_data", "position_data", "lidar_pub", "gps_pub", "odom_pub", "velocity_pub", "imu_pub", "position_pub">>

\* C18: the calls a cycle has made so far are always a beginning of: one
\* poll of the vehicle, the six calls that read a stored sample and build a
\* message, then the six publish calls in the order point cloud, GPS,
\* odometry, velocity, IMU, position; and a cycle that has returned has
\* made all of them.
C18_StepOrder ==
  \A i \in Inst :
      /\ Len(cycle[i].log) <= Len(CallOrder)
      /\ cycle[i].log = SubSeq(CallOrder, 1, Len(cycle[i].log))
      /\ cycle[i].attempted # {} => \A t \in TopicSet : \E n \in 1..Len(cycle[i].log) : cycle[i].log[n] = t \o "_data"
      /\ (cycle[i].pc = 0 /\ sched[i].started > 0) => cycle[i].log = CallOrder

\* a cycle that has returned after all thirteen calls, and a later one that
\* stands between its builds and its first publish
C18_Witness ==
  /\ sched[1].batches = 1
  /\ sched[1].started = 2
  /\ cycle[1].attempted = {}
  /\ Len(cycle[1].log) = 7

\* C19: a call of parse_events sends a light-state command only if the
\* state it computed differs from the state the vehicle already had, so no
\* command repeats while brake or reverse stays active.
C19_LightsOnlyWhenChanged == key_controller.sent => sim_env.vehicle.light_state # key_controller.before

\* the Q key-release events of an event queue
RECURSIVE QReleases(_)
QReleases(events) == IF events = <<>> THEN 0 ELSE (IF Head(events) = "KEYUP_q" THEN 1 ELSE 0) + QReleases(Tail(events))

\* C20: after a call of parse_events that does not quit, control.reverse is
\* (control.gear < 0), and it is the negation of its value before the call
\* if the call processed an odd number of Q releases, its value before the
\* call if an even number.
C20_QTogglesReverse ==
  [][\A events \in EventQueues, keys \in KeySets, milliseconds \in Milliseconds :
       (ParseEvents(events, keys, milliseconds) /\ ~key_controller'.returned) =>
          /\ key_controller'.control.reverse = (key_controller'.control.gear < 0)
          /\ key_controller'.control.reverse = (IF QReleases(events) % 2 = 1 THEN ~key_controller.control.reverse ELSE key_controller.control.reverse)]_vars

\* C21: once game_loop has returned or let an exception out, no actor it
\* spawned is alive and the world has its original settings again.
C21_CleanupOnEveryExit ==
  game_loop.pc = "done" => (game_loop.actors = {} /\ game_loop.settings = "original")

====
